---- MODULE Spec2Model ----
(***************************************************************************)
(* Typed abstract syntax of zokrates_core (typed_absy/mod.rs): cross-module *)
(* function symbol resolution, the structural type algebra of expressions  *)
(* and assignees, and the human-readable rendering.                        *)
(***************************************************************************)
EXTENDS Integers, Sequences, FiniteSets, TLC

VARIABLES
    modules,        \* TypedModules: module id -> TypedModule
    self,           \* the symbol signature() was called on
    cur,            \* the symbol matched by the current recursion level
    pc,             \* "idle" | "resolving" | "returned" | "panicked"
    result,         \* the Signature returned, or None
    module_lookups, \* modules.get(module_id) calls made by the current call
    key_lookups,    \* functions.get(key) calls made by the current call
    calls,          \* number of signature() calls made in this run
    first,          \* the first completed resolution of the run
    built,          \* the module mapping as it was handed to this layer
    expr,           \* the TypedExpression under construction
    depth,          \* number of constructors applied around its leaf
    out,            \* the last get_type() or fmt() made on expr, and its value
    sizes,          \* the values returned by the size() calls made on expr
    assignee,       \* the TypedAssignee under construction
    main,           \* TypedProgram::main
    iteration,      \* the order in which each HashMap of the run iterates
    rendered,       \* the texts the program was rendered to, over all runs
    runs,           \* number of runs of the compiler on the program
    statement       \* the TypedStatement handed to a pass

resolveVars == <<modules, self, cur, pc, result, module_lookups, key_lookups,
                 calls, first, built>>

exprVars == <<expr, depth, out, sizes>>

renderVars == <<main, iteration, rendered, runs>>

\* What each family of operations leaves alone
notResolve == <<exprVars, assignee, renderVars, statement>>
notExpr == <<resolveVars, assignee, renderVars, statement>>
notAssignee == <<resolveVars, expr, sizes, renderVars, statement>>
notRender == <<self, cur, pc, result, module_lookups, key_lookups, calls,
               first, built, exprVars, assignee, statement>>
notStatement == <<resolveVars, expr, depth, sizes, assignee, renderVars>>

vars == <<modules, self, cur, pc, result, module_lookups, key_lookups,
          calls, first, built, expr, depth, out, sizes, assignee,
          main, iteration, rendered, runs, statement>>

None == [tag |-> "None"]

----------------------------------------------------------------------------
(* Types, signatures and function keys (crate::types).                     *)

Boolean == [tag |-> "Boolean"]
FieldElement == [tag |-> "FieldElement"]
FieldElementArray(n) == [tag |-> "FieldElementArray", n |-> n]

SigA == [inputs |-> <<FieldElement>>, outputs |-> <<FieldElement>>]
SigB == [inputs |-> <<FieldElement, FieldElement>>, outputs |-> <<Boolean>>]
Signatures == {SigA, SigB}

FunctionKey(id, sig) == [id |-> id, signature |-> sig]
Keys == {FunctionKey("f", SigA), FunctionKey("g", SigB)}

ModuleIds == {"lib", "util"}

----------------------------------------------------------------------------
(* Function symbols and modules.                                           *)

TypedFunction(id, arguments, statements, sig) ==
    [id |-> id, arguments |-> arguments, statements |-> statements,
     signature |-> sig]

Here(f) == [tag |-> "Here", f |-> f]
There(key, module_id) == [tag |-> "There", key |-> key, module_id |-> module_id]

\* Function bodies are irrelevant to resolution: one empty function per signature
HereSymbols == {Here(TypedFunction("h", <<>>, <<>>, s)) : s \in Signatures}
ThereSymbols == {There(k, m) : k \in Keys, m \in ModuleIds}
TypedFunctionSymbol == HereSymbols \cup ThereSymbols

\* TypedFunctionSymbols: HashMap<FunctionKey, TypedFunctionSymbol>
TypedFunctionSymbols ==
    UNION {[D -> TypedFunctionSymbol] : D \in SUBSET Keys}

TypedModule(functions, imports, imported_functions) ==
    [functions |-> functions, imports |-> imports,
     imported_functions |-> imported_functions]

\* TypedModules: HashMap<TypedModuleId, TypedModule>
TypedModules ==
    UNION {[D -> {TypedModule(t, <<>>, <<>>) : t \in TypedFunctionSymbols}] :
           D \in SUBSET ModuleIds}

----------------------------------------------------------------------------
(* TypedFunctionSymbol::signature, one action per level of the recursion.  *)

\* Cap on the indirections followed by one call (only cyclic chains reach it)
MaxLookups == 6

\* Number of signature() calls made in one run
MaxCalls == 3

InitResolve ==
    /\ modules \in TypedModules
    /\ built = modules
    /\ self = None
    /\ cur = None
    /\ pc = "idle"
    /\ result = None
    /\ module_lookups = 0
    /\ key_lookups = 0
    /\ calls = 0
    /\ first = None
    /\ expr = None
    /\ depth = 0
    /\ out = None
    /\ sizes = <<>>
    /\ assignee = None
    /\ main = None
    /\ iteration = None
    /\ rendered = {}
    /\ runs = 0
    /\ statement = None

\* symbol.signature(&modules) is called
Call(symbol) ==
    /\ pc \in {"idle", "returned"}
    /\ calls < MaxCalls
    /\ calls' = calls + 1
    /\ self' = symbol
    /\ cur' = symbol
    /\ pc' = "resolving"
    /\ result' = None
    /\ module_lookups' = 0
    /\ key_lookups' = 0
    /\ UNCHANGED <<modules, first, built, notResolve>>

Remember(entry) == IF first = None THEN entry ELSE first

\* TypedFunctionSymbol::Here(f) => f.signature.clone()
SignatureHere ==
    /\ pc = "resolving"
    /\ cur.tag = "Here"
    /\ result' = cur.f.signature
    /\ pc' = "returned"
    /\ first' = Remember([self |-> self, result |-> cur.f.signature])
    /\ UNCHANGED <<modules, self, cur, module_lookups, key_lookups, calls, built,
                   notResolve>>

\* Variant: the There arm trusts the signature carried by the key
SignatureThere_KeySignature ==
    /\ pc = "resolving"
    /\ cur.tag = "There"
    /\ module_lookups < MaxLookups
    /\ module_lookups' = module_lookups + 1
    /\ key_lookups' = key_lookups + 1
    /\ result' = cur.key.signature
    /\ pc' = "returned"
    /\ first' = Remember([self |-> self, result |-> cur.key.signature])
    /\ UNCHANGED <<modules, self, cur, calls, built, notResolve>>

\* Variant: the recursive call is made on self, not on the symbol looked up
SignatureThere_RecurseOnSelf ==
    /\ pc = "resolving"
    /\ cur.tag = "There"
    /\ module_lookups < MaxLookups
    /\ module_lookups' = module_lookups + 1
    /\ IF cur.module_id \notin DOMAIN modules
       THEN /\ pc' = "panicked"
            /\ UNCHANGED <<cur, key_lookups>>
       ELSE /\ key_lookups' = key_lookups + 1
            /\ IF cur.key \notin DOMAIN modules[cur.module_id].functions
               THEN /\ pc' = "panicked"
                    /\ UNCHANGED cur
               ELSE /\ cur' = self
                    /\ pc' = "resolving"
    /\ UNCHANGED <<modules, self, result, calls, first, built, notResolve>>

\* Variant: a failed lookup falls back to the key's signature (unwrap_or)
SignatureThere_Fallback ==
    /\ pc = "resolving"
    /\ cur.tag = "There"
    /\ module_lookups < MaxLookups
    /\ module_lookups' = module_lookups + 1
    /\ IF cur.module_id \notin DOMAIN modules
       THEN /\ pc' = "returned"
            /\ result' = cur.key.signature
            /\ UNCHANGED <<cur, key_lookups>>
       ELSE /\ key_lookups' = key_lookups + 1
            /\ IF cur.key \notin DOMAIN modules[cur.module_id].functions
               THEN /\ pc' = "returned"
                    /\ result' = cur.key.signature
                    /\ UNCHANGED cur
               ELSE /\ cur' = modules[cur.module_id].functions[cur.key]
                    /\ pc' = "resolving"
                    /\ UNCHANGED result
    /\ UNCHANGED <<modules, self, calls, first, built, notResolve>>

\* Variant: the symbol found replaces the alias in the caller's table
SignatureThere_Caching ==
    /\ pc = "resolving"
    /\ cur.tag = "There"
    /\ module_lookups < MaxLookups
    /\ module_lookups' = module_lookups + 1
    /\ IF cur.module_id \notin DOMAIN modules
       THEN /\ pc' = "panicked"
            /\ UNCHANGED <<cur, key_lookups, modules>>
       ELSE /\ key_lookups' = key_lookups + 1
            /\ IF cur.key \notin DOMAIN modules[cur.module_id].functions
               THEN /\ pc' = "panicked"
                    /\ UNCHANGED <<cur, modules>>
               ELSE /\ cur' = modules[cur.module_id].functions[cur.key]
                    /\ pc' = "resolving"
                    /\ modules' = [m \in DOMAIN modules |->
                         [modules[m] EXCEPT !.functions =
                            [k \in DOMAIN modules[m].functions |->
                               IF modules[m].functions[k] = cur
                               THEN modules[cur.module_id].functions[cur.key]
                               ELSE modules[m].functions[k]]]]
    /\ UNCHANGED <<self, result, calls, first, built, notResolve>>

\* Variant: the recursion gives up after four indirections
SignatureThere_DepthLimit ==
    /\ pc = "resolving"
    /\ cur.tag = "There"
    /\ module_lookups < MaxLookups
    /\ module_lookups' = module_lookups + 1
    /\ IF \/ module_lookups >= 4
          \/ cur.module_id \notin DOMAIN modules
       THEN /\ pc' = "panicked"
            /\ UNCHANGED <<cur, key_lookups>>
       ELSE /\ key_lookups' = key_lookups + 1
            /\ IF cur.key \notin DOMAIN modules[cur.module_id].functions
               THEN /\ pc' = "panicked"
                    /\ UNCHANGED cur
               ELSE /\ cur' = modules[cur.module_id].functions[cur.key]
                    /\ pc' = "resolving"
    /\ UNCHANGED <<modules, self, result, calls, first, built, notResolve>>

\* TypedFunctionSymbol::There(key, module_id) =>
\*     modules.get(module_id).unwrap().functions.get(key).unwrap().signature(&modules)
SignatureThere ==
    /\ pc = "resolving"
    /\ cur.tag = "There"
    /\ module_lookups < MaxLookups
    /\ module_lookups' = module_lookups + 1
    /\ IF cur.module_id \notin DOMAIN modules
       THEN \* modules.get(module_id) is None: unwrap panics
            /\ pc' = "panicked"
            /\ UNCHANGED <<cur, key_lookups>>
       ELSE /\ key_lookups' = key_lookups + 1
            /\ IF cur.key \notin DOMAIN modules[cur.module_id].functions
               THEN \* functions.get(key) is None: unwrap panics
                    /\ pc' = "panicked"
                    /\ UNCHANGED cur
               ELSE /\ cur' = modules[cur.module_id].functions[cur.key]
                    /\ pc' = "resolving"
    /\ UNCHANGED <<modules, self, result, calls, first, built, notResolve>>

NextResolve ==
    \/ \E symbol \in TypedFunctionSymbol : Call(symbol)
    \/ SignatureHere
    \/ SignatureThere

SpecResolve == InitResolve /\ [][NextResolve]_vars

\* A call that was started runs to its end: the recursion is synchronous
FairSpecResolve ==
    /\ SpecResolve
    /\ WF_vars(SignatureHere)
    /\ WF_vars(SignatureThere)

----------------------------------------------------------------------------
(* Expression nodes.                                                       *)

\* FieldElementExpression
FieldNumber(v) == [tag |-> "Number", v |-> v]
FieldIdentifier(id) == [tag |-> "Identifier", id |-> id]
FieldBinary(op, lhs, rhs) == [tag |-> op, lhs |-> lhs, rhs |-> rhs]
FieldIfElse(condition, consequent, alternative) ==
    [tag |-> "IfElse", condition |-> condition, consequent |-> consequent,
     alternative |-> alternative]
FieldFunctionCall(key, p) == [tag |-> "FunctionCall", key |-> key, p |-> p]
FieldSelect(array, index) == [tag |-> "Select", array |-> array, index |-> index]

ArithmeticOps == {"Add", "Sub", "Mult", "Div", "Pow"}

\* BooleanExpression
BoolIdentifier(id) == [tag |-> "Identifier", id |-> id]
BoolValue(b) == [tag |-> "Value", b |-> b]
BoolCompare(op, lhs, rhs) == [tag |-> op, lhs |-> lhs, rhs |-> rhs]
BoolBinary(op, lhs, rhs) == [tag |-> op, lhs |-> lhs, rhs |-> rhs]
BoolNot(exp) == [tag |-> "Not", exp |-> exp]

CompareOps == {"Lt", "Le", "Eq", "Ge", "Gt"}
BoolOps == {"Or", "And"}

\* FieldElementArrayExpression: the size is stored in the variants
ArrayIdentifier(n, id) == [tag |-> "Identifier", n |-> n, id |-> id]
ArrayValue(n, values) == [tag |-> "Value", n |-> n, values |-> values]
ArrayFunctionCall(n, key, p) ==
    [tag |-> "FunctionCall", n |-> n, key |-> key, p |-> p]
ArrayIfElse(condition, consequent, alternative) ==
    [tag |-> "IfElse", condition |-> condition, consequent |-> consequent,
     alternative |-> alternative]

\* TypedExpression
TypedBoolean(e) == [tag |-> "Boolean", e |-> e]
TypedFieldElement(e) == [tag |-> "FieldElement", e |-> e]
TypedFieldElementArray(e) == [tag |-> "FieldElementArray", e |-> e]

----------------------------------------------------------------------------
(* Typed: get_type and size.                                               *)

\* Variant: the size of a Value is the length of its vector
RECURSIVE FieldElementArrayExpression_size_ValueLen(_)
FieldElementArrayExpression_size_ValueLen(e) ==
    IF e.tag \in {"Identifier", "FunctionCall"}
    THEN e.n
    ELSE IF e.tag = "Value"
    THEN Len(e.values)
    ELSE FieldElementArrayExpression_size_ValueLen(e.consequent)

\* impl FieldElementArrayExpression: fn size(&self) -> usize
RECURSIVE FieldElementArrayExpression_size(_)
FieldElementArrayExpression_size(e) ==
    IF e.tag \in {"Identifier", "Value", "FunctionCall"}
    THEN e.n
    ELSE FieldElementArrayExpression_size(e.consequent)

\* Variant: the type of an IfElse is read from the alternative branch
RECURSIVE FieldElementArrayExpression_get_type_Alternative(_)
FieldElementArrayExpression_get_type_Alternative(e) ==
    CASE e.tag = "Identifier" -> FieldElementArray(e.n)
      [] e.tag = "Value" -> FieldElementArray(e.n)
      [] e.tag = "FunctionCall" -> FieldElementArray(e.n)
      [] e.tag = "IfElse" ->
            FieldElementArrayExpression_get_type_Alternative(e.alternative)

\* impl Typed for FieldElementArrayExpression
RECURSIVE FieldElementArrayExpression_get_type(_)
FieldElementArrayExpression_get_type(e) ==
    CASE e.tag = "Identifier" -> FieldElementArray(e.n)
      [] e.tag = "Value" -> FieldElementArray(e.n)
      [] e.tag = "FunctionCall" -> FieldElementArray(e.n)
      [] e.tag = "IfElse" -> FieldElementArrayExpression_get_type(e.consequent)

\* Variant: an array expression used as a value has the type of its elements
TypedExpression_get_type_Element(e) ==
    CASE e.tag = "Boolean" -> Boolean
      [] e.tag = "FieldElement" -> FieldElement
      [] e.tag = "FieldElementArray" -> FieldElement

\* impl Typed for TypedExpression
TypedExpression_get_type(e) ==
    CASE e.tag = "Boolean" -> Boolean
      [] e.tag = "FieldElement" -> FieldElement
      [] e.tag = "FieldElementArray" -> FieldElementArrayExpression_get_type(e.e)

----------------------------------------------------------------------------
(* Display of expressions.                                                 *)

\* [String]::join
RECURSIVE Join(_, _)
Join(strs, sep) ==
    IF Len(strs) = 0 THEN ""
    ELSE IF Len(strs) = 1 THEN strs[1]
    ELSE strs[1] \o sep \o Join(Tail(strs), sep)

\* Display of a field value T and of a bool
FieldDisplay(v) == ToString(v)
BoolDisplay(b) == IF b THEN "true" ELSE "false"

Infix(op) ==
    CASE op = "Add" -> " + "
      [] op = "Sub" -> " - "
      [] op = "Mult" -> " * "
      [] op = "Div" -> " / "
      [] op = "Pow" -> "**"
      [] op = "Lt" -> " < "
      [] op = "Le" -> " <= "
      [] op = "Eq" -> " == "
      [] op = "Ge" -> " >= "
      [] op = "Gt" -> " > "
      [] op = "Or" -> " || "
      [] op = "And" -> " && "

RECURSIVE FieldElementExpression_fmt(_)
RECURSIVE BooleanExpression_fmt(_)
RECURSIVE FieldElementArrayExpression_fmt(_)
RECURSIVE TypedExpression_fmt(_)

\* impl fmt::Display for FieldElementExpression
FieldElementExpression_fmt(e) ==
    CASE e.tag = "Number" -> FieldDisplay(e.v)
      [] e.tag = "Identifier" -> e.id
      [] e.tag \in {"Add", "Sub", "Mult", "Div"} ->
            "(" \o FieldElementExpression_fmt(e.lhs) \o Infix(e.tag)
                \o FieldElementExpression_fmt(e.rhs) \o ")"
      [] e.tag = "Pow" ->
            FieldElementExpression_fmt(e.lhs) \o "**"
                \o FieldElementExpression_fmt(e.rhs)
      [] e.tag = "IfElse" ->
            "if " \o BooleanExpression_fmt(e.condition)
                \o " then " \o FieldElementExpression_fmt(e.consequent)
                \o " else " \o FieldElementExpression_fmt(e.alternative)
                \o " fi"
      [] e.tag = "FunctionCall" ->
            e.key.id \o "("
                \o Join([i \in 1..Len(e.p) |-> TypedExpression_fmt(e.p[i])], ", ")
                \o ")"
      [] e.tag = "Select" ->
            FieldElementArrayExpression_fmt(e.array) \o "["
                \o FieldElementExpression_fmt(e.index) \o "]"

\* impl fmt::Display for BooleanExpression
BooleanExpression_fmt(e) ==
    CASE e.tag = "Identifier" -> e.id
      [] e.tag \in CompareOps ->
            FieldElementExpression_fmt(e.lhs) \o Infix(e.tag)
                \o FieldElementExpression_fmt(e.rhs)
      [] e.tag \in BoolOps ->
            BooleanExpression_fmt(e.lhs) \o Infix(e.tag)
                \o BooleanExpression_fmt(e.rhs)
      [] e.tag = "Not" -> "!" \o BooleanExpression_fmt(e.exp)
      [] e.tag = "Value" -> BoolDisplay(e.b)

\* impl fmt::Display for FieldElementArrayExpression
FieldElementArrayExpression_fmt(e) ==
    CASE e.tag = "Identifier" -> e.id
      [] e.tag = "Value" ->
            "[" \o Join([i \in 1..Len(e.values) |->
                            FieldElementExpression_fmt(e.values[i])], ", ")
                \o "]"
      [] e.tag = "FunctionCall" ->
            e.key.id \o "("
                \o Join([i \in 1..Len(e.p) |-> TypedExpression_fmt(e.p[i])], ", ")
                \o ")"
      [] e.tag = "IfElse" ->
            "if " \o BooleanExpression_fmt(e.condition)
                \o " then " \o FieldElementArrayExpression_fmt(e.consequent)
                \o " else " \o FieldElementArrayExpression_fmt(e.alternative)
                \o " fi"

\* impl fmt::Display for TypedExpression
TypedExpression_fmt(e) ==
    CASE e.tag = "Boolean" -> BooleanExpression_fmt(e.e)
      [] e.tag = "FieldElement" -> FieldElementExpression_fmt(e.e)
      [] e.tag = "FieldElementArray" -> FieldElementArrayExpression_fmt(e.e)

----------------------------------------------------------------------------
(* Construction of expressions, and the calls made on them.                *)

\* Nesting of the expressions constructed
MaxDepth == 2

\* Number of size() calls recorded for one expression
MaxSizeCalls == 2

Sizes == {0, 3, 5}

KeyF == FunctionKey("f", SigA)

\* Operands put next to the expression under construction
X == FieldIdentifier("x")
B == BoolIdentifier("b")
A(n) == ArrayIdentifier(n, "a")

FieldLeaves ==
    {FieldNumber(1), FieldNumber(2), FieldIdentifier("x"), FieldIdentifier("y")}
BoolLeaves == {BoolIdentifier("b"), BoolValue(TRUE), BoolValue(FALSE)}
ArrayLeaves ==
    {ArrayIdentifier(n, "a") : n \in Sizes}
        \cup {ArrayValue(0, <<>>), ArrayValue(3, <<FieldNumber(1)>>),
              ArrayFunctionCall(5, KeyF, <<>>)}

Leaves ==
    {TypedFieldElement(e) : e \in FieldLeaves}
        \cup {TypedBoolean(e) : e \in BoolLeaves}
        \cup {TypedFieldElementArray(e) : e \in ArrayLeaves}

\* No resolution is in progress and no module is loaded
NoResolve ==
    /\ modules = <<>>
    /\ built = <<>>
    /\ self = None
    /\ cur = None
    /\ pc = "idle"
    /\ result = None
    /\ module_lookups = 0
    /\ key_lookups = 0
    /\ calls = 0
    /\ first = None

\* No program is being rendered
NoRender ==
    /\ main = None
    /\ iteration = None
    /\ rendered = {}
    /\ runs = 0

\* No statement is under inspection
NoStatement == statement = None

InitExpr ==
    /\ expr \in Leaves
    /\ depth = 0
    /\ out = None
    /\ sizes = <<>>
    /\ assignee = None
    /\ NoResolve
    /\ NoRender
    /\ NoStatement

\* The expression becomes an operand of a new node e
Build(e) ==
    /\ depth < MaxDepth
    /\ expr' = e
    /\ depth' = depth + 1
    /\ out' = None
    /\ sizes' = <<>>
    /\ UNCHANGED notExpr

\* FieldElementExpression::{Add, Sub, Mult, Div, Pow}
BuildArithmetic ==
    /\ expr.tag = "FieldElement"
    /\ \E op \in ArithmeticOps :
        \/ Build(TypedFieldElement(FieldBinary(op, expr.e, X)))
        \/ Build(TypedFieldElement(FieldBinary(op, X, expr.e)))

\* BooleanExpression::{Lt, Le, Eq, Ge, Gt}
BuildCompare ==
    /\ expr.tag = "FieldElement"
    /\ \E op \in CompareOps :
        \/ Build(TypedBoolean(BoolCompare(op, expr.e, X)))
        \/ Build(TypedBoolean(BoolCompare(op, X, expr.e)))

\* BooleanExpression::{Or, And, Not}
BuildBool ==
    /\ expr.tag = "Boolean"
    /\ \/ \E op \in BoolOps :
            \/ Build(TypedBoolean(BoolBinary(op, expr.e, B)))
            \/ Build(TypedBoolean(BoolBinary(op, B, expr.e)))
       \/ Build(TypedBoolean(BoolNot(expr.e)))

\* FieldElementExpression::IfElse
BuildFieldIfElse ==
    \/ /\ expr.tag = "Boolean"
       /\ Build(TypedFieldElement(FieldIfElse(expr.e, X, X)))
    \/ /\ expr.tag = "FieldElement"
       /\ \/ Build(TypedFieldElement(FieldIfElse(B, expr.e, X)))
          \/ Build(TypedFieldElement(FieldIfElse(B, X, expr.e)))

\* FieldElementExpression::FunctionCall, FieldElementArrayExpression::FunctionCall
BuildFunctionCall ==
    /\ expr.tag \in {"Boolean", "FieldElement", "FieldElementArray"}
    /\ \/ Build(TypedFieldElement(FieldFunctionCall(KeyF, <<expr>>)))
       \/ Build(TypedFieldElement(FieldFunctionCall(KeyF,
                                    <<expr, TypedFieldElement(X)>>)))
       \/ \E n \in Sizes :
            Build(TypedFieldElementArray(ArrayFunctionCall(n, KeyF, <<expr>>)))

\* FieldElementExpression::Select
BuildSelect ==
    \/ /\ expr.tag = "FieldElementArray"
       /\ Build(TypedFieldElement(FieldSelect(expr.e, X)))
    \/ /\ expr.tag = "FieldElement"
       /\ Build(TypedFieldElement(FieldSelect(A(3), expr.e)))

\* FieldElementArrayExpression::Value
BuildArrayValue ==
    /\ expr.tag = "FieldElement"
    /\ \E n \in Sizes :
        \/ Build(TypedFieldElementArray(ArrayValue(n, <<expr.e>>)))
        \/ Build(TypedFieldElementArray(ArrayValue(n, <<expr.e, X, X>>)))

\* FieldElementArrayExpression::IfElse
BuildArrayIfElse ==
    \/ /\ expr.tag = "Boolean"
       /\ \E n, m \in Sizes :
            Build(TypedFieldElementArray(ArrayIfElse(expr.e, A(n), A(m))))
    \/ /\ expr.tag = "FieldElementArray"
       /\ \E n \in Sizes :
            \/ Build(TypedFieldElementArray(ArrayIfElse(B, expr.e, A(n))))
            \/ Build(TypedFieldElementArray(ArrayIfElse(B, A(n), expr.e)))

\* expr.get_type()
GetType ==
    /\ out' = [op |-> "get_type", value |-> TypedExpression_get_type(expr)]
    /\ UNCHANGED <<expr, depth, sizes, notExpr>>

\* e.size(), on the array expression inside expr
Size ==
    /\ expr.tag = "FieldElementArray"
    /\ Len(sizes) < MaxSizeCalls
    /\ sizes' = Append(sizes, FieldElementArrayExpression_size(expr.e))
    /\ UNCHANGED <<expr, depth, out, notExpr>>

\* format!("{}", expr)
Fmt ==
    /\ out' = [op |-> "fmt", value |-> TypedExpression_fmt(expr)]
    /\ UNCHANGED <<expr, depth, sizes, notExpr>>

NextExpr ==
    \/ BuildArithmetic
    \/ BuildCompare
    \/ BuildBool
    \/ BuildFieldIfElse
    \/ BuildFunctionCall
    \/ BuildSelect
    \/ BuildArrayValue
    \/ BuildArrayIfElse
    \/ GetType
    \/ Size

SpecExpr == InitExpr /\ [][NextExpr]_vars

NextFmt ==
    \/ BuildArithmetic
    \/ BuildCompare
    \/ BuildBool
    \/ BuildFieldIfElse
    \/ BuildFunctionCall
    \/ BuildSelect
    \/ BuildArrayValue
    \/ BuildArrayIfElse
    \/ Fmt

SpecFmt == InitExpr /\ [][NextFmt]_vars

----------------------------------------------------------------------------
(* Assignees.                                                              *)

\* Variable: a named binding with its type
Variable(id, type) == [id |-> id, _type |-> type]
Variable_get_type(v) == v._type

\* TypedAssignee
AssigneeIdentifier(v) == [tag |-> "Identifier", v |-> v]
ArrayElement(a, index) == [tag |-> "ArrayElement", a |-> a, index |-> index]

\* panic!("array element has to take array")
Panic == [tag |-> "panic", msg |-> "array element has to take array"]

\* Variant: an element of a non-array assignee has the assignee's type
RECURSIVE TypedAssignee_get_type_NoCheck(_)
TypedAssignee_get_type_NoCheck(a) ==
    IF a.tag = "Identifier"
    THEN Variable_get_type(a.v)
    ELSE LET a_type == TypedAssignee_get_type_NoCheck(a.a) IN
         IF a_type.tag = "FieldElementArray" THEN FieldElement ELSE a_type

\* Variant: an element of an array assignee is an array again
RECURSIVE TypedAssignee_get_type_ArrayOfArrays(_)
TypedAssignee_get_type_ArrayOfArrays(a) ==
    IF a.tag = "Identifier"
    THEN Variable_get_type(a.v)
    ELSE LET a_type == TypedAssignee_get_type_ArrayOfArrays(a.a) IN
         IF a_type = Panic
         THEN Panic
         ELSE IF a_type.tag = "FieldElementArray" THEN a_type ELSE Panic

\* impl Typed for TypedAssignee; a panic in the nested call unwinds
RECURSIVE TypedAssignee_get_type(_)
TypedAssignee_get_type(a) ==
    IF a.tag = "Identifier"
    THEN Variable_get_type(a.v)
    ELSE LET a_type == TypedAssignee_get_type(a.a) IN
         IF a_type = Panic
         THEN Panic
         ELSE IF a_type.tag = "FieldElementArray" THEN FieldElement ELSE Panic

\* Nesting of the assignees constructed
MaxAssigneeDepth == 2

Types == {Boolean, FieldElement} \cup {FieldElementArray(n) : n \in Sizes}

Variables == {Variable(id, t) : id \in {"a", "v"}, t \in Types}

Indices ==
    {FieldNumber(0), FieldNumber(7), FieldIdentifier("i"),
     FieldBinary("Add", FieldIdentifier("i"), FieldNumber(1)),
     FieldSelect(A(3), FieldNumber(0)),
     FieldFunctionCall(KeyF, <<TypedFieldElement(X)>>)}

InitAssignee ==
    /\ assignee \in {AssigneeIdentifier(v) : v \in Variables}
    /\ depth = 0
    /\ out = None
    /\ expr = None
    /\ sizes = <<>>
    /\ NoResolve
    /\ NoRender
    /\ NoStatement

\* TypedAssignee::ArrayElement(box assignee, box index)
BuildArrayElement(index) ==
    /\ depth < MaxAssigneeDepth
    /\ assignee' = ArrayElement(assignee, index)
    /\ depth' = depth + 1
    /\ out' = None
    /\ UNCHANGED notAssignee

\* assignee.get_type()
AssigneeGetType ==
    /\ out' = [op |-> "get_type", value |-> TypedAssignee_get_type(assignee)]
    /\ UNCHANGED <<assignee, depth, notAssignee>>

NextAssignee ==
    \/ \E index \in Indices : BuildArrayElement(index)
    \/ AssigneeGetType

SpecAssignee == InitAssignee /\ [][NextAssignee]_vars

----------------------------------------------------------------------------
(* Statements, functions, and the rendering of a program.                  *)

\* Parameter: a variable that is a function argument
Parameter(v) == [id |-> v]

\* TypedExpressionList::FunctionCall(key, arguments, output types)
ExpressionListFunctionCall(key, p, types) ==
    [tag |-> "FunctionCall", key |-> key, p |-> p, types |-> types]

\* TypedStatement
Return(exprs) == [tag |-> "Return", exprs |-> exprs]
Definition(lhs, rhs) == [tag |-> "Definition", lhs |-> lhs, rhs |-> rhs]
Declaration(var) == [tag |-> "Declaration", var |-> var]
Condition(lhs, rhs) == [tag |-> "Condition", lhs |-> lhs, rhs |-> rhs]
For(var, start, stop, list) ==
    [tag |-> "For", var |-> var, start |-> start, stop |-> stop, list |-> list]
MultipleDefinition(ids, rhs) ==
    [tag |-> "MultipleDefinition", ids |-> ids, rhs |-> rhs]

\* Display of Type, Signature, Variable, Parameter, Import and FlatFunction
Type_fmt(t) ==
    IF t.tag = "FieldElementArray"
    THEN "FieldElement[" \o ToString(t.n) \o "]"
    ELSE t.tag
Signature_fmt(sig) ==
    "(" \o Join([i \in 1..Len(sig.inputs) |-> Type_fmt(sig.inputs[i])], ", ")
        \o ") -> ("
        \o Join([i \in 1..Len(sig.outputs) |-> Type_fmt(sig.outputs[i])], ", ")
        \o ")"
Variable_fmt(v) == Type_fmt(v._type) \o " " \o v.id
Parameter_fmt(param) == param.id.id
Import_fmt(import) == "import " \o import.source
FlatFunction_fmt(fun) == "def " \o fun.id \o "(): flat"

\* impl fmt::Debug for TypedAssignee, which Display delegates to
RECURSIVE TypedAssignee_fmt(_)
TypedAssignee_fmt(a) ==
    IF a.tag = "Identifier"
    THEN a.v.id
    ELSE TypedAssignee_fmt(a.a) \o "[" \o FieldElementExpression_fmt(a.index) \o "]"

\* impl fmt::Display for TypedExpressionList
TypedExpressionList_fmt(l) ==
    l.key.id \o "("
        \o Join([i \in 1..Len(l.p) |-> TypedExpression_fmt(l.p[i])], ", ")
        \o ")"

\* The concatenation of the strings of a sequence
RECURSIVE Concat(_)
Concat(strs) == IF Len(strs) = 0 THEN "" ELSE strs[1] \o Concat(Tail(strs))

\* impl fmt::Display for TypedStatement
RECURSIVE TypedStatement_fmt(_)
TypedStatement_fmt(st) ==
    CASE st.tag = "Return" ->
            "return "
                \o Join([i \in 1..Len(st.exprs) |-> TypedExpression_fmt(st.exprs[i])],
                        ", ")
      [] st.tag = "Declaration" -> Variable_fmt(st.var)
      [] st.tag = "Definition" ->
            TypedAssignee_fmt(st.lhs) \o " = " \o TypedExpression_fmt(st.rhs)
      [] st.tag = "Condition" ->
            TypedExpression_fmt(st.lhs) \o " == " \o TypedExpression_fmt(st.rhs)
      [] st.tag = "For" ->
            "for " \o Variable_fmt(st.var) \o " in " \o FieldDisplay(st.start)
                \o ".." \o FieldDisplay(st.stop) \o " do\n"
                \o Concat([i \in 1..Len(st.list) |->
                              "\t\t" \o TypedStatement_fmt(st.list[i]) \o "\n"])
                \o "\tendfor"
      [] st.tag = "MultipleDefinition" ->
            Join([i \in 1..Len(st.ids) |-> Variable_fmt(st.ids[i])], ", ")
                \o " = " \o TypedExpressionList_fmt(st.rhs)

\* impl fmt::Display for TypedFunction
TypedFunction_fmt(fun) ==
    "def " \o fun.id \o "("
        \o Join([i \in 1..Len(fun.arguments) |-> Parameter_fmt(fun.arguments[i])],
                ", ")
        \o ") -> ("
        \o Join([i \in 1..Len(fun.signature.outputs) |->
                    Type_fmt(fun.signature.outputs[i])], ", ")
        \o "):\n"
        \o Join([i \in 1..Len(fun.statements) |->
                    "\t" \o TypedStatement_fmt(fun.statements[i])], "\n")

\* impl fmt::Display for TypedFunctionSymbol
TypedFunctionSymbol_fmt(sym) ==
    IF sym.tag = "Here"
    THEN TypedFunction_fmt(sym.f)
    ELSE "import " \o sym.key.id \o " from " \o sym.module_id
            \o " // with signature " \o Signature_fmt(sym.key.signature)

\* self.functions.values(): the symbols of a table in the order keys gives
Values(functions, keys) == [i \in 1..Len(keys) |-> functions[keys[i]]]

\* impl fmt::Display for TypedModule; keys is the order functions iterates in
TypedModule_fmt(module, keys) ==
    LET res == [i \in 1..Len(module.imports) |-> Import_fmt(module.imports[i])]
               \o [i \in 1..Len(module.imported_functions) |->
                      FlatFunction_fmt(module.imported_functions[i])]
               \o [i \in 1..Len(keys) |->
                      TypedFunctionSymbol_fmt(Values(module.functions, keys)[i])]
    IN  Join(res, "\n")

\* str::repeat
RECURSIVE Repeat(_, _)
Repeat(str, n) == IF n = 0 THEN "" ELSE str \o Repeat(str, n - 1)

RuleWidth == 100

\* impl fmt::Display for TypedProgram; it gives the HashMaps' iteration orders
TypedProgram_fmt(program, it) ==
    "| main: |\n"
        \o Repeat("-", RuleWidth) \o "\n"
        \o TypedModule_fmt(program.main, it.functions["main"]) \o "\n"
        \o Repeat("-", RuleWidth) \o "\n"
        \o "\n"
        \o Concat([i \in 1..Len(it.modules) |->
              "| " \o it.modules[i] \o ": |\n"
                  \o Repeat("-", RuleWidth) \o "\n"
                  \o TypedModule_fmt(program.modules[it.modules[i]],
                                     it.functions[it.modules[i]]) \o "\n"
                  \o Repeat("-", RuleWidth) \o "\n"
                  \o "\n"])

Y == FieldIdentifier("y")
VarX == Variable("x", FieldElement)
VarY == Variable("y", FieldElement)

\* def f(x) -> (FieldElement): return x
FunF ==
    TypedFunction("f", <<Parameter(VarX)>>,
                  <<Return(<<TypedFieldElement(X)>>)>>, SigA)

FunG ==
    TypedFunction("g", <<Parameter(VarX), Parameter(VarY)>>,
        <<Declaration(Variable("z", FieldElementArray(3))),
          Definition(ArrayElement(AssigneeIdentifier(Variable("z", FieldElementArray(3))),
                                  FieldNumber(0)),
                     TypedFieldElement(FieldBinary("Mult", X, Y))),
          For(Variable("i", FieldElement), 0, 3,
              <<Definition(AssigneeIdentifier(VarY),
                           TypedFieldElement(FieldBinary("Add", Y, X)))>>),
          MultipleDefinition(<<Variable("a", FieldElement), Variable("b", FieldElement)>>,
              ExpressionListFunctionCall(KeyF, <<TypedFieldElement(X)>>,
                                         <<FieldElement, FieldElement>>)),
          Condition(TypedFieldElement(X), TypedFieldElement(Y)),
          Return(<<TypedBoolean(BoolCompare("Lt", X, Y))>>)>>,
        SigB)

KeyG == FunctionKey("g", SigB)

\* The symbol tables of the programs rendered
RenderedFunctions ==
    {<<>>,
     KeyF :> Here(FunF),
     KeyF :> Here(FunF) @@ KeyG :> Here(FunG),
     KeyF :> There(KeyF, "util") @@ KeyG :> Here(FunG)}

RenderedImports == {<<>>, <<[source |-> "util"]>>}
RenderedFlatFunctions == {<<>>, <<[id |-> "_sha256"]>>}

RenderedModules ==
    UNION {[D -> {TypedModule(t, <<>>, <<>>) : t \in RenderedFunctions}] :
           D \in SUBSET ModuleIds}

\* The sequences that list every element of a set once
Orders(S) ==
    {p \in [1..Cardinality(S) -> S] : \A x \in S : \E i \in DOMAIN p : p[i] = x}

\* The orders in which the HashMaps of a program can iterate in one run: one
\* for the module mapping and one for each symbol table
Iterations(ms, mainModule) ==
    {[modules |-> pm, functions |-> pf] :
        pm \in Orders(DOMAIN ms),
        pf \in {f \in [DOMAIN ms \cup {"main"} ->
                         UNION {Orders(K) : K \in SUBSET Keys}] :
                  /\ f["main"] \in Orders(DOMAIN mainModule.functions)
                  /\ \A m \in DOMAIN ms :
                        f[m] \in Orders(DOMAIN ms[m].functions)}}

\* Number of runs of the compiler on one program
MaxRuns == 2

InitRender ==
    /\ modules \in RenderedModules
    /\ main \in {TypedModule(t, i, ff) : t \in RenderedFunctions,
                    i \in RenderedImports, ff \in RenderedFlatFunctions}
    /\ iteration \in Iterations(modules, main)
    /\ rendered = {}
    /\ runs = 1
    /\ built = modules
    /\ self = None
    /\ cur = None
    /\ pc = "idle"
    /\ result = None
    /\ module_lookups = 0
    /\ key_lookups = 0
    /\ calls = 0
    /\ first = None
    /\ expr = None
    /\ depth = 0
    /\ out = None
    /\ sizes = <<>>
    /\ assignee = None
    /\ statement = None

\* format!("{}", program)
Render ==
    /\ rendered' = rendered \cup
            {TypedProgram_fmt([modules |-> modules, main |-> main], iteration)}
    /\ UNCHANGED <<modules, main, iteration, runs, notRender>>

\* The same program is built in another run: its HashMaps are new ones, each
\* with the hasher state of that run
NewRun ==
    /\ runs < MaxRuns
    /\ runs' = runs + 1
    /\ iteration' \in Iterations(modules, main)
    /\ UNCHANGED <<modules, main, rendered, notRender>>

NextRender ==
    \/ Render
    \/ NewRun

SpecRender == InitRender /\ [][NextRender]_vars

----------------------------------------------------------------------------
(* MultipleDefinition statements and the types of their right-hand side.   *)

\* Variant: the types are taken from the signature of the key called
TypedExpressionList_get_types_KeyOutputs(l) == l.key.signature.outputs

\* impl MultiTyped for TypedExpressionList
TypedExpressionList_get_types(l) == l.types

\* Number of variables on the left of a MultipleDefinition
MaxIds == 2

\* Number of types stored in a TypedExpressionList::FunctionCall
MaxTypes == 2

\* The sequences of at most n elements of S
SeqsUpTo(S, n) == UNION {[1..k -> S] : k \in 0..n}

ReturnTypes == {FieldElement, Boolean, FieldElementArray(3)}

\* Every value the enum variants build: the variables and the call are any
MultipleDefinitions ==
    {MultipleDefinition(ids, ExpressionListFunctionCall(key, p, types)) :
        ids \in SeqsUpTo({Variable("a", FieldElement), Variable("b", Boolean)},
                         MaxIds),
        key \in Keys,
        p \in {<<>>, <<TypedFieldElement(X)>>},
        types \in SeqsUpTo(ReturnTypes, MaxTypes)}

InitStatement ==
    /\ statement \in MultipleDefinitions
    /\ out = None
    /\ expr = None
    /\ depth = 0
    /\ sizes = <<>>
    /\ assignee = None
    /\ NoResolve
    /\ NoRender

\* call.get_types(), on the right-hand side of the statement
GetTypes ==
    /\ statement.tag = "MultipleDefinition"
    /\ out' = [op |-> "get_types",
               value |-> TypedExpressionList_get_types(statement.rhs)]
    /\ UNCHANGED <<statement, notStatement>>

\* format!("{}", statement)
StatementFmt ==
    /\ out' = [op |-> "fmt", value |-> TypedStatement_fmt(statement)]
    /\ UNCHANGED <<statement, notStatement>>

NextStatement ==
    \/ GetTypes
    \/ StatementFmt

SpecStatement == InitStatement /\ [][NextStatement]_vars

----------------------------------------------------------------------------
(* Symbol resolution: what a well-formed chain is, stated on the tables.   *)

\* A There whose module or key is absent
Dangling(sym) ==
    /\ sym.tag = "There"
    /\ \/ sym.module_id \notin DOMAIN modules
       \/ sym.key \notin DOMAIN modules[sym.module_id].functions

\* The symbol stored under a There's key in the module it names
Stored(sym) == modules[sym.module_id].functions[sym.key]

\* Number of (module, key) slots: an acyclic chain visits each at most once
NumSlots == Cardinality(ModuleIds) * Cardinality(Keys)

\* The symbols visited from sym, in order, following at most n indirections
RECURSIVE Chain(_, _)
Chain(sym, n) ==
    IF sym.tag = "Here" \/ n = 0 \/ Dangling(sym)
    THEN <<sym>>
    ELSE <<sym>> \o Chain(Stored(sym), n - 1)

Last(seq) == seq[Len(seq)]

\* sym reaches a Here function: all modules and keys present, no cycle
WellFormed(sym) == Last(Chain(sym, NumSlots)).tag = "Here"

\* sym reaches a There whose module or key is absent
ReachesDangling(sym) == Dangling(Last(Chain(sym, NumSlots)))

\* The number of There indirections between sym and the Here it reaches
Indirections(sym) == Len(Chain(sym, NumSlots)) - 1

\* C1: on a program whose There references all resolve, signature() returns
\* the function's own signature for Here(f) and, for There(key, module_id),
\* the signature resolved from the symbol stored under key in
\* modules[module_id], which is the signature of the Here function at the
\* end of the chain; it does not fail.
C1_SignatureResolves ==
    (pc \in {"returned", "panicked"} /\ WellFormed(self)) =>
        /\ pc = "returned"
        /\ self.tag = "Here" => result = self.f.signature
        /\ self.tag = "There" =>
              /\ result = Last(Chain(Stored(self), NumSlots)).f.signature
              /\ result = Last(Chain(self, NumSlots)).f.signature

C1_Witness ==
    /\ pc = "returned"
    /\ self = There(FunctionKey("g", SigB), "lib")
    /\ Stored(self) = Here(TypedFunction("h", <<>>, <<>>, SigA))
    /\ result = SigA

\* C2: a resolution that starts at a symbol reaching a Here function through
\* N There indirections returns, and does so after exactly N module lookups
\* and N key lookups.
C2_TerminatesInNLookups ==
    /\ [](((pc \in {"resolving", "returned"}) /\ WellFormed(self)) =>
            /\ module_lookups = key_lookups
            /\ module_lookups + Indirections(cur) = Indirections(self)
            /\ (pc = "returned") => (module_lookups = Indirections(self)))
    /\ ((pc = "resolving" /\ WellFormed(self)) ~> (pc = "returned"))

C2_Witness ==
    /\ pc = "returned"
    /\ Indirections(self) = NumSlots
    /\ module_lookups = NumSlots
    /\ key_lookups = NumSlots

\* C3: a resolution that reaches, at any depth, a There naming an absent
\* module or an absent key never returns a signature: it ends in a panic
\* and produces no value.
C3_DanglingIsFatal ==
    /\ []((pc = "panicked") => (result = None /\ Dangling(cur)))
    /\ []((pc \in {"resolving", "returned", "panicked"} /\ ReachesDangling(self))
            => (pc # "returned" /\ result = None))
    /\ ((pc = "resolving" /\ ReachesDangling(self)) ~> (pc = "panicked"))

C3_Witness ==
    /\ pc = "panicked"
    /\ module_lookups >= 2
    /\ cur.module_id \in DOMAIN modules
    /\ cur.key \notin DOMAIN modules[cur.module_id].functions

\* C4: resolving a symbol again, after any other resolutions, returns the
\* signature its first resolution returned, and no resolution changes the
\* module mapping or a symbol table.
C4_IdempotentNoSideEffect ==
    /\ modules = built
    /\ (pc = "returned" /\ first # None /\ first.self = self) =>
            result = first.result

C4_Witness ==
    /\ pc = "returned"
    /\ calls = 3
    /\ first.self = self
    /\ self.tag = "There"
    /\ result = first.result

----------------------------------------------------------------------------
(* Structural types of expressions.                                        *)

\* The expression with every constant and every name replaced by a fixed one
RECURSIVE EraseField(_)
RECURSIVE EraseBool(_)
RECURSIVE EraseArray(_)
RECURSIVE EraseTyped(_)

EraseKey(key) == [key EXCEPT !.id = "_"]

EraseField(e) ==
    CASE e.tag = "Number" -> FieldNumber(0)
      [] e.tag = "Identifier" -> FieldIdentifier("_")
      [] e.tag \in ArithmeticOps ->
            FieldBinary(e.tag, EraseField(e.lhs), EraseField(e.rhs))
      [] e.tag = "IfElse" ->
            FieldIfElse(EraseBool(e.condition), EraseField(e.consequent),
                        EraseField(e.alternative))
      [] e.tag = "FunctionCall" ->
            FieldFunctionCall(EraseKey(e.key),
                              [i \in 1..Len(e.p) |-> EraseTyped(e.p[i])])
      [] e.tag = "Select" -> FieldSelect(EraseArray(e.array), EraseField(e.index))

EraseBool(e) ==
    CASE e.tag = "Identifier" -> BoolIdentifier("_")
      [] e.tag = "Value" -> BoolValue(FALSE)
      [] e.tag \in CompareOps ->
            BoolCompare(e.tag, EraseField(e.lhs), EraseField(e.rhs))
      [] e.tag \in BoolOps ->
            BoolBinary(e.tag, EraseBool(e.lhs), EraseBool(e.rhs))
      [] e.tag = "Not" -> BoolNot(EraseBool(e.exp))

EraseArray(e) ==
    CASE e.tag = "Identifier" -> ArrayIdentifier(e.n, "_")
      [] e.tag = "Value" ->
            ArrayValue(e.n, [i \in 1..Len(e.values) |-> EraseField(e.values[i])])
      [] e.tag = "FunctionCall" ->
            ArrayFunctionCall(e.n, EraseKey(e.key),
                              [i \in 1..Len(e.p) |-> EraseTyped(e.p[i])])
      [] e.tag = "IfElse" ->
            ArrayIfElse(EraseBool(e.condition), EraseArray(e.consequent),
                        EraseArray(e.alternative))

EraseTyped(e) ==
    CASE e.tag = "Boolean" -> TypedBoolean(EraseBool(e.e))
      [] e.tag = "FieldElement" -> TypedFieldElement(EraseField(e.e))
      [] e.tag = "FieldElementArray" -> TypedFieldElementArray(EraseArray(e.e))

GotType == out # None /\ out.op = "get_type"

\* C5: for every array expression, get_type() is FieldElementArray(size()),
\* and every size() call on the same expression returns the same value.
C5_TypeIsArrayOfSize ==
    (expr # None /\ expr.tag = "FieldElementArray") =>
        /\ GotType =>
              \A i \in 1..Len(sizes) : out.value = FieldElementArray(sizes[i])
        /\ \A i, j \in 1..Len(sizes) : sizes[i] = sizes[j]

C5_Witness ==
    /\ expr # None /\ expr.tag = "FieldElementArray"
    /\ expr.e.tag = "IfElse"
    /\ expr.e.consequent.tag = "Value"
    /\ Len(expr.e.consequent.values) # expr.e.consequent.n
    /\ GotType
    /\ Len(sizes) = 2
    /\ out.value = FieldElementArray(sizes[2])

\* C6: the type and the size of an array IfElse are those of its consequent,
\* whatever the alternative and the condition; branches of different sizes
\* are accepted.
C6_IfElseTakesConsequent ==
    (expr # None /\ expr.tag = "FieldElementArray" /\ expr.e.tag = "IfElse") =>
        LET consequent == expr.e.consequent IN
        /\ GotType =>
              /\ out.value = FieldElementArrayExpression_get_type(consequent)
              /\ consequent.tag # "IfElse" =>
                    out.value = FieldElementArray(consequent.n)
        /\ \A i \in 1..Len(sizes) :
              /\ sizes[i] = FieldElementArrayExpression_size(consequent)
              /\ consequent.tag # "IfElse" => sizes[i] = consequent.n

C6_Witness ==
    /\ expr # None /\ expr.tag = "FieldElementArray" /\ expr.e.tag = "IfElse"
    /\ expr.e.consequent = A(3)
    /\ expr.e.alternative = A(5)
    /\ GotType
    /\ out.value = FieldElementArray(3)
    /\ sizes = <<3>>

\* C8: get_type() returns a type for every expression: Boolean for a boolean
\* expression, FieldElement for a field-element expression and
\* FieldElementArray(n) for an array expression, and the same type when the
\* constants and the names inside the expression are changed.
C8_GetTypeTotalStructural ==
    GotType =>
        /\ expr.tag = "Boolean" => out.value = Boolean
        /\ expr.tag = "FieldElement" => out.value = FieldElement
        /\ expr.tag = "FieldElementArray" =>
              \E n \in Sizes : out.value = FieldElementArray(n)
        /\ out.value = TypedExpression_get_type(EraseTyped(expr))

C8_Witness ==
    /\ GotType
    /\ depth = 2
    /\ expr.tag = "FieldElementArray"
    /\ expr.e.tag = "FunctionCall"
    /\ out.value = FieldElementArray(5)

\* C7: get_type() on an ArrayElement whose base assignee has the type
\* FieldElement or Boolean panics and returns no type; on a base of type
\* FieldElementArray(n) it returns FieldElement, whatever n and the index.
C7_ArrayElementNeedsArray ==
    (assignee # None /\ assignee.tag = "ArrayElement" /\ GotType) =>
        LET base == assignee.a
            base_type == TypedAssignee_get_type(base)
        IN  /\ base.tag = "Identifier" => base_type = base.v._type
            /\ base_type \in {FieldElement, Boolean} => out.value = Panic
            /\ base_type \in {FieldElementArray(n) : n \in Sizes} =>
                  out.value = FieldElement

C7_Witness ==
    /\ assignee # None /\ assignee.tag = "ArrayElement" /\ GotType
    /\ assignee.a = AssigneeIdentifier(Variable("v", FieldElement))
    /\ assignee.index = FieldIdentifier("i")
    /\ out.value = Panic

\* C10: a field-element expression built with Add, Sub, Mult, Div or Pow is
\* rendered as its rendered operands around the infix operator, inside one
\* pair of parentheses.
C10_ArithmeticParenthesized ==
    (out # None /\ out.op = "fmt" /\ expr.tag = "FieldElement"
        /\ expr.e.tag \in ArithmeticOps) =>
        out.value = "(" \o FieldElementExpression_fmt(expr.e.lhs)
                        \o Infix(expr.e.tag)
                        \o FieldElementExpression_fmt(expr.e.rhs) \o ")"

\* C9: every rendering of a program, in the same run or in another run,
\* yields the same text: the order of the modules and of the function
\* symbols in the text depends on the program's content only.
C9_RenderingDeterministic == Cardinality(rendered) <= 1

GotTypes == out # None /\ out.op = "get_types"

\* C11 as stated: every MultipleDefinition(vars, call) has as many variables
\* as call.get_types() has types.
C11_ArityAlwaysMatches ==
    GotTypes => Len(statement.ids) = Len(out.value)

\* C11: get_types() returns the type list stored in the FunctionCall, so a
\* MultipleDefinition has as many variables as get_types() has types exactly
\* when it was built with as many variables as stored types; one built with
\* another number of variables is type-queried and rendered all the same.
C11_GetTypesReturnsStoredTypes ==
    /\ GotTypes =>
          /\ out.value = statement.rhs.types
          /\ (Len(statement.ids) = Len(out.value))
                <=> (Len(statement.ids) = Len(statement.rhs.types))
    /\ (out # None /\ out.op = "fmt") =>
          out.value = Join([i \in 1..Len(statement.ids) |->
                              Variable_fmt(statement.ids[i])], ", ")
                        \o " = " \o TypedExpressionList_fmt(statement.rhs)

C11_Witness ==
    /\ GotTypes
    /\ Len(statement.ids) = 2
    /\ out.value = <<FieldElement>>
    /\ statement.rhs.key.signature.outputs = <<FieldElement>>

\* The chain from sym runs into a cycle of present modules and keys
Cyclic(sym) == ~WellFormed(sym) /\ ~ReachesDangling(sym)

RECURSIVE Nesting(_)
Nesting(a) == IF a.tag = "Identifier" THEN 0 ELSE 1 + Nesting(a.a)

\* The variable at the bottom of an assignee
RECURSIVE BaseVariable(_)
BaseVariable(a) == IF a.tag = "Identifier" THEN a.v ELSE BaseVariable(a.a)

\* C13: get_type() returns a type exactly on Identifier(v) and on
\* ArrayElement(Identifier(v), index) with v of an array type; on every
\* assignee with two or more nested ArrayElement levels it panics, whatever
\* the base variable and the indices.
C13_NestedElementsPanic ==
    (assignee # None /\ GotType) =>
        /\ Nesting(assignee) >= 2 => out.value = Panic
        /\ out.value # Panic <=>
              \/ Nesting(assignee) = 0
              \/ /\ Nesting(assignee) = 1
                 /\ BaseVariable(assignee)._type.tag = "FieldElementArray"
        /\ (Nesting(assignee) = 0) => out.value = assignee.v._type
        /\ (Nesting(assignee) = 1 /\ out.value # Panic) => out.value = FieldElement

C13_Witness ==
    /\ assignee # None /\ GotType
    /\ assignee.tag = "ArrayElement"
    /\ assignee.index = FieldNumber(7)
    /\ assignee.a.tag = "ArrayElement"
    /\ assignee.a.index = FieldIdentifier("i")
    /\ assignee.a.a = AssigneeIdentifier(Variable("a", FieldElementArray(3)))
    /\ out.value = Panic

====
